---- MODULE Spec2Model ----
(***************************************************************************)
(* Model of the tutoring application in src/src/App.tsx: the protocol      *)
(* parser (single and batch), the command dispatcher of handleStudyMessage,*)
(* the quiz state machine (startQuiz, handleQuizAnswer and its display-    *)
(* delay timer) and the shared busy flag isGenerating.                     *)
(*                                                                         *)
(* Texts are sequences of tokens.  A token is one character, except that   *)
(* the protocol keywords "SORU:", "CEVAP:", "YAKIN:" and the separator     *)
(* "---" are single tokens; "x" stands for any non-blank character that    *)
(* occurs in no pattern of the code, " " for any white-space character.    *)
(* The command prefixes are spelled "/" "resim" " " and "/" "video" " ".   *)
(***************************************************************************)
EXTENDS Integers, Sequences, FiniteSets, TLC

\* ------------------------------------------------------------------------
\* Bounds of the model
\* ------------------------------------------------------------------------
MaxStarts == 2

MaxStudy == 2

MaxAi == 1

\* ------------------------------------------------------------------------
\* JavaScript values and string primitives
\* ------------------------------------------------------------------------
Undefined == "undefined"

Null == "null"

Labels == <<"A", "B", "C", "D">>

LabelSet == {"A", "B", "C", "D"}

\* first character of a token, as a character class [A-D] sees it
FirstChar(tok) == IF tok = "CEVAP:" THEN "C" ELSE tok

IsSpace(tok) == tok = " "

\* text.slice(from - 1) in 1-based positions
Drop(s, n) == SubSeq(s, n + 1, Len(s))

Take(s, n) == SubSeq(s, 1, n)

\* pat occurs in s at position i
MatchAt(s, pat, i) ==
  /\ i >= 1
  /\ i + Len(pat) - 1 <= Len(s)
  /\ \A k \in 1..Len(pat) : s[i + k - 1] = pat[k]

\* String.prototype.indexOf, 1-based, 0 when absent
IndexOf(s, pat) ==
  IF \E i \in 1..Len(s) + 1 : MatchAt(s, pat, i)
  THEN CHOOSE i \in 1..Len(s) + 1 :
         /\ MatchAt(s, pat, i)
         /\ \A j \in 1..i - 1 : ~MatchAt(s, pat, j)
  ELSE 0

\* String.prototype.includes
Includes(s, pat) == IndexOf(s, pat) # 0

\* a prefix test that accepts the pattern anywhere in the text
StartsWithAnywhere(s, pat) == \E i \in 1..Len(s) : MatchAt(s, pat, i)

\* String.prototype.startsWith
StartsWith(s, pat) == MatchAt(s, pat, 1)

\* String.prototype.replace with a string pattern: first occurrence only
ReplaceFirst(s, pat, by) ==
  LET i == IndexOf(s, pat)
  IN IF i = 0 THEN s
     ELSE Take(s, i - 1) \o by \o Drop(s, i + Len(pat) - 1)

\* String.prototype.split with a non-empty string separator
RECURSIVE Split(_, _)
Split(s, sep) ==
  LET i == IndexOf(s, sep)
  IN IF i = 0 THEN <<s>>
     ELSE <<Take(s, i - 1)>> \o Split(Drop(s, i + Len(sep) - 1), sep)

\* number of leading white-space tokens of s
RECURSIVE LeadingSpaces(_)
LeadingSpaces(s) ==
  IF s # <<>> /\ IsSpace(Head(s)) THEN 1 + LeadingSpaces(Tail(s)) ELSE 0

RECURSIVE TrailingSpaces(_)
TrailingSpaces(s) ==
  IF s # <<>> /\ IsSpace(s[Len(s)])
  THEN 1 + TrailingSpaces(Take(s, Len(s) - 1)) ELSE 0

\* String.prototype.trim
Trim(s) ==
  LET a == LeadingSpaces(s)
  IN IF a = Len(s) THEN <<>>
     ELSE SubSeq(s, a + 1, Len(s) - TrailingSpaces(s))

\* ------------------------------------------------------------------------
\* Protocol parser (App.tsx 340-361 single, 414-436 batch)
\* ------------------------------------------------------------------------
SORU == <<"SORU:">>

CEVAP == <<"CEVAP:">>

YAKIN == <<"YAKIN:">>

SEPARATOR == <<"---">>

OptionMarker(opt) == <<opt, ")">>

\* the lookahead (?=\s*[B-D]\)|\s*CEVAP:|\s*YAKIN:|$) holds at position q
OptionEndsAt(s, q) ==
  LET r == q + LeadingSpaces(Drop(s, q - 1))
  IN \/ \E l \in {"B", "C", "D"} : MatchAt(s, OptionMarker(l), r)
     \/ MatchAt(s, CEVAP, r)
     \/ MatchAt(s, YAKIN, r)
     \/ q = Len(s) + 1

\* match[1] of  opt\)\s*(.*?)(?=\s*[B-D]\)|\s*CEVAP:|\s*YAKIN:|$)  with flag s,
\* for a text s in which "opt)" occurs: leftmost marker, greedy \s*, lazy group
OptionCapture(s, opt) ==
  LET i == IndexOf(s, OptionMarker(opt))
      p == i + 2 + LeadingSpaces(Drop(s, i + 1))
      q == CHOOSE q \in p..Len(s) + 1 :
             /\ OptionEndsAt(s, q)
             /\ \A r \in p..q - 1 : ~OptionEndsAt(s, r)
  IN SubSeq(s, p, q - 1)

\* match ? `${opt}) ${match[1].trim()}` : ""
OptionText(s, opt) ==
  IF Includes(s, OptionMarker(opt))
  THEN <<opt, ")", " ">> \o Trim(OptionCapture(s, opt))
  ELSE <<>>

\* ["A","B","C","D"].map(...).filter(o => o !== "")
ParseOptions(s) ==
  LET all == [k \in 1..4 |-> OptionText(s, Labels[k])]
  IN SelectSeq(all, LAMBDA o : o # <<>>)

\* the key pattern without \s*: the letter must follow the marker directly
LabelAfterNoSpace(s, marker) ==
  IF \E i \in 1..Len(s) - 1 :
       MatchAt(s, marker, i) /\ FirstChar(s[i + 1]) \in LabelSet
  THEN LET i == CHOOSE i \in 1..Len(s) - 1 :
                  /\ MatchAt(s, marker, i) /\ FirstChar(s[i + 1]) \in LabelSet
                  /\ \A j \in 1..i - 1 :
                       ~(MatchAt(s, marker, j) /\ FirstChar(s[j + 1]) \in LabelSet)
       IN FirstChar(s[i + 1])
  ELSE "undefined"

\* the regular expression  marker\s*([A-D])  matches at position i
LabelMatchAt(s, marker, i) ==
  /\ MatchAt(s, marker, i)
  /\ LET r == i + 1 + LeadingSpaces(Drop(s, i))
     IN r <= Len(s) /\ FirstChar(s[r]) \in LabelSet

\* m = s.match(/marker\s*([A-D])/);  m ? m[1] : undefined
LabelAfter(s, marker) ==
  IF \E i \in 1..Len(s) : LabelMatchAt(s, marker, i)
  THEN LET i == CHOOSE i \in 1..Len(s) :
                  /\ LabelMatchAt(s, marker, i)
                  /\ \A j \in 1..i - 1 : ~LabelMatchAt(s, marker, j)
           r == i + 1 + LeadingSpaces(Drop(s, i))
       IN FirstChar(s[r])
  ELSE Undefined

\* { role: 'model', text: aiText }
PlainMessage(s) ==
  [role |-> "model", text |-> s, image |-> Undefined, video |-> Undefined,
   hasOptions |-> FALSE, options |-> <<>>,
   correctAnswer |-> Undefined, closeAnswer |-> Undefined, type |-> Undefined]

QuizMessage(stem, s) ==
  [role |-> "model", text |-> stem, image |-> Undefined, video |-> Undefined,
   hasOptions |-> TRUE,
   options |-> ParseOptions(s),
   correctAnswer |-> LabelAfter(s, CEVAP),
   closeAnswer |-> LabelAfter(s, YAKIN), type |-> "quiz"]

\* a quiz-shape test that forgets the "A)" marker
IsQuizShapedStemOnly(s) == \E i \in 1..Len(s) : s[i] = "SORU:"

\* aiText.includes("SORU:") && aiText.includes("A)")
IsQuizShaped(s) == Includes(s, SORU) /\ Includes(s, OptionMarker("A"))

\* aiText.split("SORU:")[1].split("A)")[0].trim()
SingleStem(s) == Trim(Split(Split(s, SORU)[2], OptionMarker("A"))[1])

\* single-message parse of handleStudyMessage
ParseSingle(s) ==
  IF IsQuizShaped(s) THEN QuizMessage(SingleStem(s), s) ELSE PlainMessage(s)

LoadFailedStem == <<"Soru yuklenemedi.">>

\* block.split("SORU:")[1]?.split("A)")[0]?.trim() || "Soru yüklenemedi."
BlockStem(b) ==
  LET parts == Split(b, SORU)
      stem == IF Len(parts) >= 2
              THEN Trim(Split(parts[2], OptionMarker("A"))[1]) ELSE <<>>
  IN IF stem = <<>> THEN LoadFailedStem ELSE stem

ParseBlock(b) == QuizMessage(BlockStem(b), b)

\* a filter that keeps malformed questions
KeepEvery(q) == TRUE

\* q => q.options && q.options.length > 0
KeepQuestion(q) == Len(q.options) > 0

\* raw.split("---").map(parse).filter(keep)
ParseBatch(raw) ==
  LET blocks == Split(raw, SEPARATOR)
      parsed == [k \in 1..Len(blocks) |-> ParseBlock(blocks[k])]
  IN SelectSeq(parsed, KeepQuestion)

\* ------------------------------------------------------------------------
\* Replies of the generation service that the model draws from
\* ------------------------------------------------------------------------
OptionsABCD ==
  <<"A", ")", " ", "x", " ", "B", ")", " ", "x", " ",
    "C", ")", " ", "x", " ", "D", ")", " ", "x", " ">>

\* one question in the format the prompt of startQuiz asks for
Item(c, y) ==
  <<"SORU:", " ", "x", " ">> \o OptionsABCD
    \o <<"CEVAP:", " ", c, " ", "YAKIN:", " ", y>>

\* a question without answer key and with two options only
ItemNoKey == <<"SORU:", " ", "x", " ", "A", ")", " ", "x", " ", "B", ")", " ", "x">>

Sep == <<" ", "---", " ">>

QuizReplies ==
  { <<"x">>,
    Item("A", "A") \o Sep \o ItemNoKey,
    Item("B", "C") \o Sep \o <<"x">> \o Sep \o Item("C", "D")
      \o Sep \o Item("D", "A") }

\* the five-question reply of a short quiz
FiveItems ==
  Item("A", "B") \o Sep \o Item("B", "C") \o Sep \o Item("C", "D")
    \o Sep \o Item("D", "A") \o Sep \o Item("A", "C")

AllQuizReplies == QuizReplies \cup {FiveItems}

\* the batch parse of every reply, computed once
ParsedReply == [r \in AllQuizReplies |-> ParseBatch(r)]

\* ------------------------------------------------------------------------
\* Score arithmetic: quizScore holds the score times ScoreDen, so that
\* 100 / quizQuestions.length and 50 / quizQuestions.length are exact
\* ------------------------------------------------------------------------
RECURSIVE Gcd(_, _)
Gcd(a, b) == IF b = 0 THEN a ELSE Gcd(b, a % b)

Lcm(a, b) == (a * b) \div Gcd(a, b)

RECURSIVE LcmOf(_)
LcmOf(S) ==
  IF S = {} THEN 1
  ELSE LET n == CHOOSE n \in S : TRUE IN Lcm(n, LcmOf(S \ {n}))

ScoreDen == LcmOf({Len(ParsedReply[r]) : r \in AllQuizReplies} \ {0})

\* Math.round of the non-negative score s / ScoreDen
MathRound(s) == (2 * s + ScoreDen) \div (2 * ScoreDen)

\* ------------------------------------------------------------------------
\* State
\* ------------------------------------------------------------------------
VARIABLES
  view, selectedBook, chatMessages, aiInput, aiResponse, selectedImage,
  isListening, isGenerating,
  quizScore, quizQuestions, currentQuizIndex, quizFinished, answerStatus,
  selectedAnswer,
  aiCalls, studyCalls, quizCalls, timers,
  input, output

uiVars == <<view, selectedBook, chatMessages, aiInput, aiResponse,
            selectedImage, isListening>>

quizVars == <<quizScore, quizQuestions, currentQuizIndex, quizFinished,
              answerStatus, selectedAnswer>>

callVars == <<aiCalls, studyCalls, quizCalls, timers>>

harnessVars == <<input, output>>

vars == <<uiVars, isGenerating, quizVars, callVars, harnessVars>>

QuizViews == {"quiz", "battle-royale"}

NoOutput == [kind |-> "none"]

\* the useState initialisers of App
AppInit ==
  /\ view = "home"
  /\ selectedBook = Null
  /\ chatMessages = <<>>
  /\ aiInput = <<>>
  /\ aiResponse = ""
  /\ selectedImage = Null
  /\ isListening = FALSE
  /\ isGenerating = FALSE
  /\ quizScore = 0
  /\ quizQuestions = <<>>
  /\ currentQuizIndex = 0
  /\ quizFinished = FALSE
  /\ answerStatus = <<>>
  /\ selectedAnswer = Null
  /\ aiCalls = 0
  /\ studyCalls = <<>>
  /\ quizCalls = <<>>
  /\ timers = <<>>

Init ==
  /\ AppInit
  /\ input = <<>>
  /\ output = NoOutput

\* the quiz view is rendering the current question (App.tsx 945-1010)
QuestionShown ==
  /\ view \in QuizViews
  /\ ~quizFinished
  /\ ~isGenerating
  /\ Len(quizQuestions) > 0

\* quizQuestions[currentQuizIndex] is undefined while the question is
\* rendered: the render throws and React unmounts the application
RenderThrows == QuestionShown /\ currentQuizIndex >= Len(quizQuestions)

Mounted == ~RenderThrows

\* the question at the cursor (the index is 0-based in the code)
CurrentQ == quizQuestions[currentQuizIndex + 1]

\* ------------------------------------------------------------------------
\* Navigation and the input box
\* ------------------------------------------------------------------------
InputTexts ==
  { <<>>, <<"x">>, <<"/", "resim", " ", "x">>, <<"/", "video", " ", "x">> }

\* navbar and footer buttons: setView('home'), setView('pdf-library')
SetView(v) ==
  /\ Mounted
  /\ v \in {"home", "pdf-library"}
  /\ view # v
  /\ view' = v
  /\ UNCHANGED <<selectedBook, chatMessages, aiInput, aiResponse,
                 selectedImage, isListening, isGenerating, quizVars,
                 callVars, harnessVars>>

\* onChange of the two text inputs: setAiInput(e.target.value)
TypeInput(t) ==
  /\ Mounted
  /\ view \in {"home", "study"}
  /\ t \in InputTexts
  /\ aiInput # t
  /\ aiInput' = t
  /\ UNCHANGED <<view, selectedBook, chatMessages, aiResponse,
                 selectedImage, isListening, isGenerating, quizVars,
                 callVars, harnessVars>>

\* ------------------------------------------------------------------------
\* handleAiGenerate (App.tsx 136-156)
\* ------------------------------------------------------------------------
HandleAiGenerate ==
  /\ Mounted
  /\ view = "home"
  /\ Trim(aiInput) # <<>>
  /\ aiCalls < MaxAi
  /\ isGenerating' = TRUE
  /\ aiCalls' = aiCalls + 1
  /\ UNCHANGED <<uiVars, quizVars, studyCalls, quizCalls, timers,
                 harnessVars>>

\* the generateContent call of handleAiGenerate resolves or rejects
AiGenerateSettles(ok) ==
  /\ Mounted
  /\ aiCalls > 0
  /\ aiResponse' = IF ok THEN "response" ELSE "fallback"
  /\ isGenerating' = FALSE
  /\ aiCalls' = aiCalls - 1
  /\ UNCHANGED <<view, selectedBook, chatMessages, aiInput, selectedImage,
                 isListening, quizVars, studyCalls, quizCalls, timers,
                 harnessVars>>

\* ------------------------------------------------------------------------
\* startQuiz (App.tsx 385-442)
\* ------------------------------------------------------------------------
StartQuiz(isBattleRoyale) ==
  /\ Mounted
  /\ Len(quizCalls) < MaxStarts
  /\ view' = IF isBattleRoyale THEN "battle-royale" ELSE "quiz"
  /\ quizFinished' = FALSE
  /\ quizScore' = 0
  /\ currentQuizIndex' = 0
  /\ answerStatus' = <<>>
  /\ selectedAnswer' = Null
  /\ isGenerating' = TRUE
  /\ quizCalls' = Append(quizCalls, [pc |-> "await", raw |-> <<>>])
  /\ UNCHANGED <<selectedBook, chatMessages, aiInput, aiResponse,
                 selectedImage, isListening, quizQuestions, aiCalls,
                 studyCalls, timers, harnessVars>>

\* the batch request of call k resolves with text raw
QuizResolves(k, raw) ==
  /\ Mounted
  /\ k \in DOMAIN quizCalls
  /\ quizCalls[k].pc = "await"
  /\ raw \in AllQuizReplies
  /\ quizQuestions' = ParsedReply[raw]
  /\ isGenerating' = FALSE
  /\ quizCalls' = [quizCalls EXCEPT ![k] = [pc |-> "done", raw |-> raw]]
  /\ UNCHANGED <<uiVars, quizScore, currentQuizIndex, quizFinished,
                 answerStatus, selectedAnswer, aiCalls, studyCalls, timers,
                 harnessVars>>

\* the batch request of call k rejects: catch logs, finally clears the flag
QuizRejects(k) ==
  /\ Mounted
  /\ k \in DOMAIN quizCalls
  /\ quizCalls[k].pc = "await"
  /\ isGenerating' = FALSE
  /\ quizCalls' = [quizCalls EXCEPT ![k].pc = "failed"]
  /\ UNCHANGED <<uiVars, quizVars, aiCalls, studyCalls, timers,
                 harnessVars>>

\* ------------------------------------------------------------------------
\* handleQuizAnswer (App.tsx 444-474)
\* ------------------------------------------------------------------------
\* closeness tested before correctness
OutcomeCloseFirst(answer, q) ==
  IF answer = q.closeAnswer THEN "close"
  ELSE IF answer = q.correctAnswer THEN "correct"
  ELSE "incorrect"

\* the outcome of answering question q with answer
Outcome(answer, q) ==
  IF answer = q.correctAnswer THEN "correct"
  ELSE IF answer = q.closeAnswer THEN "close"
  ELSE "incorrect"

\* full credit for a close answer
IncrementFullForClose(status, n) ==
  IF status \in {"correct", "close"} THEN (100 * ScoreDen) \div n ELSE 0

\* the score increment, times ScoreDen, for a quiz of n questions
Increment(status, n) ==
  IF status = "correct" THEN (100 * ScoreDen) \div n
  ELSE IF status = "close" THEN (50 * ScoreDen) \div n
  ELSE 0

\* { ...prev, [currentQuizIndex]: status }
Record(prev, index, status) ==
  [j \in DOMAIN prev \cup {index} |-> IF j = index THEN status ELSE prev[j]]

\* handleQuizAnswer without the guard of line 445
HandleQuizAnswerUnguarded(answer) ==
  /\ ~(view \in {"quiz", "battle-royale"} /\ ~quizFinished /\ ~isGenerating
        /\ Len(quizQuestions) > 0 /\ currentQuizIndex >= Len(quizQuestions))
  /\ view \in {"quiz", "battle-royale"}
  /\ ~quizFinished
  /\ ~isGenerating
  /\ currentQuizIndex < Len(quizQuestions)
  /\ \E k \in DOMAIN quizQuestions[currentQuizIndex + 1].options :
       Head(quizQuestions[currentQuizIndex + 1].options[k]) = answer
  /\ LET q == quizQuestions[currentQuizIndex + 1]
         status == IF answer = q.correctAnswer THEN "correct"
                   ELSE IF answer = q.closeAnswer THEN "close"
                   ELSE "incorrect"
         gain == IF status = "correct" THEN (100 * ScoreDen) \div Len(quizQuestions)
                 ELSE IF status = "close" THEN (50 * ScoreDen) \div Len(quizQuestions)
                 ELSE 0
     IN /\ selectedAnswer' = answer
        /\ quizScore' = quizScore + gain
        /\ answerStatus' =
             [j \in DOMAIN answerStatus \cup {currentQuizIndex} |->
                IF j = currentQuizIndex THEN status ELSE answerStatus[j]]
        /\ timers' = Append(timers, [index |-> currentQuizIndex,
                                     length |-> Len(quizQuestions)])
  /\ UNCHANGED <<uiVars, isGenerating, quizQuestions, currentQuizIndex,
                 quizFinished, aiCalls, studyCalls, quizCalls, harnessVars>>

\* the labels of the option buttons of the current question: opt.charAt(0)
OptionChars == {Head(CurrentQ.options[k]) : k \in DOMAIN CurrentQ.options}

HandleQuizAnswer(answer) ==
  /\ Mounted
  /\ QuestionShown
  /\ answer \in OptionChars
  /\ IF selectedAnswer # Null
     THEN UNCHANGED vars
     ELSE LET status == Outcome(answer, CurrentQ)
          IN /\ selectedAnswer' = answer
             /\ quizScore' = quizScore + Increment(status, Len(quizQuestions))
             /\ answerStatus' = Record(answerStatus, currentQuizIndex, status)
             /\ timers' = Append(timers, [index |-> currentQuizIndex,
                                          length |-> Len(quizQuestions)])
             /\ UNCHANGED <<uiVars, isGenerating, quizQuestions,
                            currentQuizIndex, quizFinished, aiCalls,
                            studyCalls, quizCalls, harnessVars>>

\* the callback as the cursor-at-the-end design has it: always advance, and
\* finish when the cursor reaches the number of items
TimerFiresAdvancing ==
  /\ ~(view \in {"quiz", "battle-royale"} /\ ~quizFinished /\ ~isGenerating
        /\ Len(quizQuestions) > 0 /\ currentQuizIndex >= Len(quizQuestions))
  /\ timers # <<>>
  /\ selectedAnswer' = Null
  /\ currentQuizIndex' = currentQuizIndex + 1
  /\ quizFinished' = (quizFinished \/ currentQuizIndex + 1 >= timers[1].length)
  /\ timers' = SubSeq(timers, 2, Len(timers))
  /\ UNCHANGED <<uiVars, isGenerating, quizScore, quizQuestions,
                 answerStatus, aiCalls, studyCalls, quizCalls, harnessVars>>

\* a callback that clears the selection but leaves the cursor where it is
TimerFiresNoAdvance ==
  /\ ~(view \in {"quiz", "battle-royale"} /\ ~quizFinished /\ ~isGenerating
        /\ Len(quizQuestions) > 0 /\ currentQuizIndex >= Len(quizQuestions))
  /\ timers # <<>>
  /\ selectedAnswer' = Null
  /\ quizFinished' = (quizFinished \/ timers[1].index >= timers[1].length - 1)
  /\ timers' = SubSeq(timers, 2, Len(timers))
  /\ UNCHANGED <<uiVars, isGenerating, quizScore, quizQuestions,
                 currentQuizIndex, answerStatus, aiCalls, studyCalls,
                 quizCalls, harnessVars>>

\* the setTimeout callback, 1500 ms after the answer; equal delays expire in
\* the order in which they were started
TimerFires ==
  /\ Mounted
  /\ timers # <<>>
  /\ LET t == Head(timers)
     IN /\ selectedAnswer' = Null
        /\ IF t.index < t.length - 1
           THEN /\ currentQuizIndex' = currentQuizIndex + 1
                /\ UNCHANGED quizFinished
           ELSE /\ quizFinished' = TRUE
                /\ UNCHANGED currentQuizIndex
  /\ timers' = Tail(timers)
  /\ UNCHANGED <<uiVars, isGenerating, quizScore, quizQuestions,
                 answerStatus, aiCalls, studyCalls, quizCalls, harnessVars>>

\* ------------------------------------------------------------------------
\* Command dispatcher of handleStudyMessage (App.tsx 219-233, 275-277, 312-338)
\* ------------------------------------------------------------------------
ResimPrefix == <<"/", "resim", " ">>

VideoPrefix == <<"/", "video", " ">>

\* the guard of line 220 does not return
Accepted(text, image, book) ==
  ~((Trim(text) = <<>> /\ image = Undefined) \/ book = Null)

\* the request the text is routed to
Dispatch(text, image) ==
  IF StartsWith(text, ResimPrefix)
  THEN [kind |-> "image", prompt |-> ReplaceFirst(text, ResimPrefix, <<>>),
        image |-> Undefined]
  ELSE IF StartsWith(text, VideoPrefix)
  THEN [kind |-> "video", prompt |-> ReplaceFirst(text, VideoPrefix, <<>>),
        image |-> Undefined]
  ELSE [kind |-> "text", prompt |-> text, image |-> image]

\* { role: 'user', text, image }
UserMessage(text, image) ==
  [role |-> "user", text |-> text, image |-> image, video |-> Undefined,
   hasOptions |-> FALSE, options |-> <<>>,
   correctAnswer |-> Undefined, closeAnswer |-> Undefined, type |-> Undefined]

\* the tutor message that carries a generated image or video
MediaMessage(kind, text) ==
  [role |-> "model", text |-> text,
   image |-> IF kind = "image" THEN "png" ELSE Undefined,
   video |-> IF kind = "video" THEN "uri" ELSE Undefined,
   hasOptions |-> FALSE, options |-> <<>>,
   correctAnswer |-> Undefined, closeAnswer |-> Undefined, type |-> kind]

\* the subject catalogue (App.tsx 83-91), restricted to two subjects
Books == {"fen", "matematik"}

Greeting(book) == PlainMessage(<<"Merhaba", book>>)

DefaultCaption == <<"Iste">>

GeneratorText == <<"x", " ", "x">>

\* a plain reply and a question with one option
StudyReplies == { <<"x">>, <<"SORU:", "x", "A", ")", "x", "CEVAP:", "A">> }

\* the first await of the pipeline of a request
FirstPc(kind) ==
  IF kind = "image" THEN "image"
  ELSE IF kind = "video" THEN "videoCreate"
  ELSE "text"

\* ------------------------------------------------------------------------
\* handleStudyMessage (App.tsx 219-371)
\* ------------------------------------------------------------------------
HandleStudyMessage(text, image) ==
  /\ Mounted
  /\ Len(studyCalls) < MaxStudy
  /\ IF ~Accepted(text, image, selectedBook)
     THEN UNCHANGED <<chatMessages, aiInput, selectedImage, isGenerating,
                      studyCalls>>
     ELSE /\ chatMessages' = Append(chatMessages, UserMessage(text, image))
          /\ aiInput' = <<>>
          /\ selectedImage' = Null
          /\ isGenerating' = TRUE
          /\ studyCalls' = Append(studyCalls,
               [pc |-> FirstPc(Dispatch(text, image).kind),
                request |-> Dispatch(text, image),
                book |-> selectedBook])
  /\ UNCHANGED <<view, selectedBook, aiResponse, isListening, quizVars,
                 aiCalls, quizCalls, timers, harnessVars>>

\* selectedImage || undefined
OrUndefined(v) == IF v = Null THEN Undefined ELSE v

\* the send button and the Enter key of the chat input
SendMessage ==
  /\ view = "study"
  /\ HandleStudyMessage(aiInput, OrUndefined(selectedImage))

\* the question-generator button
GenerateQuestion ==
  /\ view = "study"
  /\ HandleStudyMessage(GeneratorText, Undefined)

\* an option button of a quiz message of the chat
ChooseOption(m, k) ==
  /\ view = "study"
  /\ m \in DOMAIN chatMessages
  /\ k \in DOMAIN chatMessages[m].options
  /\ HandleStudyMessage(chatMessages[m].options[k], Undefined)

\* book card of the home view (App.tsx 737-742)
SelectBook(book) ==
  /\ Mounted
  /\ view = "home"
  /\ selectedBook' = book
  /\ view' = "study"
  /\ chatMessages' = <<Greeting(book)>>
  /\ UNCHANGED <<aiInput, aiResponse, selectedImage, isListening,
                 isGenerating, quizVars, callVars, harnessVars>>

\* handleImageUpload, with the FileReader callback (App.tsx 373-383)
HandleImageUpload ==
  /\ Mounted
  /\ view = "study"
  /\ selectedImage = Null
  /\ selectedImage' = "img"
  /\ UNCHANGED <<view, selectedBook, chatMessages, aiInput, aiResponse,
                 isListening, isGenerating, quizVars, callVars, harnessVars>>

\* startListening with recognition.onstart (App.tsx 176-217)
StartListening ==
  /\ Mounted
  /\ view = "study"
  /\ ~isListening
  /\ isListening' = TRUE
  /\ UNCHANGED <<view, selectedBook, chatMessages, aiInput, aiResponse,
                 selectedImage, isGenerating, quizVars, callVars, harnessVars>>

\* recognition.onresult followed by recognition.onend
SpeechResult(transcript) ==
  /\ isListening
  /\ transcript # <<>>
  /\ Len(studyCalls) < MaxStudy
  /\ Mounted
  /\ isListening' = FALSE
  /\ IF ~Accepted(transcript, Undefined, selectedBook)
     THEN /\ aiInput' = transcript
          /\ UNCHANGED <<chatMessages, selectedImage, isGenerating, studyCalls>>
     ELSE /\ chatMessages' =
               Append(chatMessages, UserMessage(transcript, Undefined))
          /\ aiInput' = <<>>
          /\ selectedImage' = Null
          /\ isGenerating' = TRUE
          /\ studyCalls' = Append(studyCalls,
               [pc |-> FirstPc(Dispatch(transcript, Undefined).kind),
                request |-> Dispatch(transcript, Undefined),
                book |-> selectedBook])
  /\ UNCHANGED <<view, selectedBook, aiResponse, quizVars, aiCalls,
                 quizCalls, timers, harnessVars>>

\* call k leaves the function: finally { setIsGenerating(false) }
Leaves(k, pc, messages) ==
  /\ chatMessages' = chatMessages \o messages
  /\ isGenerating' = FALSE
  /\ studyCalls' = [studyCalls EXCEPT ![k].pc = pc]

Stays(k, pc) ==
  /\ studyCalls' = [studyCalls EXCEPT ![k].pc = pc]
  /\ UNCHANGED <<chatMessages, isGenerating>>

studyFrame == <<view, selectedBook, aiInput, aiResponse, selectedImage,
                isListening, quizVars, aiCalls, quizCalls, timers,
                harnessVars>>

\* the tutoring request resolves with text raw (App.tsx 332-364)
TextResolves(k, raw) ==
  /\ Mounted
  /\ k \in DOMAIN studyCalls
  /\ studyCalls[k].pc = "text"
  /\ raw \in StudyReplies
  /\ Leaves(k, "done", <<ParseSingle(raw)>>)
  /\ UNCHANGED studyFrame

\* an awaited call of the pipeline rejects: catch logs, nothing is appended
StudyRejects(k) ==
  /\ Mounted
  /\ k \in DOMAIN studyCalls
  /\ studyCalls[k].pc \in {"text", "image", "describe", "videoCreate", "status"}
  /\ Leaves(k, "failed", <<>>)
  /\ UNCHANGED studyFrame

\* an image pipeline that shows the image as soon as the payload is there,
\* without the description call
ImageResolvesExposing(k, payload) ==
  /\ ~(view \in {"quiz", "battle-royale"} /\ ~quizFinished /\ ~isGenerating
        /\ Len(quizQuestions) > 0 /\ currentQuizIndex >= Len(quizQuestions))
  /\ k \in DOMAIN studyCalls
  /\ studyCalls[k].pc = "image"
  /\ chatMessages' =
       IF payload
       THEN Append(chatMessages,
              [role |-> "model", text |-> <<"Iste">>, image |-> "png",
               video |-> "undefined", hasOptions |-> FALSE, options |-> <<>>,
               correctAnswer |-> "undefined", closeAnswer |-> "undefined",
               type |-> "image"])
       ELSE chatMessages
  /\ isGenerating' = FALSE
  /\ studyCalls' = [studyCalls EXCEPT ![k].pc = IF payload THEN "done" ELSE "failed"]
  /\ UNCHANGED <<view, selectedBook, aiInput, aiResponse, selectedImage,
                 isListening, quizVars, aiCalls, quizCalls, timers,
                 harnessVars>>

\* the image request resolves, with or without an inline payload (234-271)
ImageResolves(k, payload) ==
  /\ Mounted
  /\ k \in DOMAIN studyCalls
  /\ studyCalls[k].pc = "image"
  /\ IF payload THEN Stays(k, "describe") ELSE Leaves(k, "failed", <<>>)
  /\ UNCHANGED studyFrame

\* the description request resolves with text raw (254-268)
DescribeResolves(k, raw) ==
  /\ Mounted
  /\ k \in DOMAIN studyCalls
  /\ studyCalls[k].pc = "describe"
  /\ raw \in {<<>>, <<"x">>}
  /\ Leaves(k, "done",
       <<MediaMessage("image", IF raw = <<>> THEN DefaultCaption ELSE raw)>>)
  /\ UNCHANGED studyFrame

\* a video pipeline that composes the video message without testing the URI
OperationResolvesNoUriCheck(k, done, uri) ==
  /\ ~(view \in {"quiz", "battle-royale"} /\ ~quizFinished /\ ~isGenerating
        /\ Len(quizQuestions) > 0 /\ currentQuizIndex >= Len(quizQuestions))
  /\ k \in DOMAIN studyCalls
  /\ studyCalls[k].pc \in {"videoCreate", "status"}
  /\ chatMessages' =
       IF done
       THEN Append(chatMessages,
              [role |-> "model", text |-> <<"Iste">>, image |-> "undefined",
               video |-> IF uri THEN "uri" ELSE "undefined",
               hasOptions |-> FALSE, options |-> <<>>,
               correctAnswer |-> "undefined", closeAnswer |-> "undefined",
               type |-> "video"])
       ELSE chatMessages
  /\ isGenerating' = (isGenerating /\ ~done)
  /\ studyCalls' = [studyCalls EXCEPT ![k].pc = IF done THEN "done" ELSE "sleep"]
  /\ UNCHANGED <<view, selectedBook, aiInput, aiResponse, selectedImage,
                 isListening, quizVars, aiCalls, quizCalls, timers,
                 harnessVars>>

\* generateVideos or getVideosOperation resolves with an operation (279-308)
OperationResolves(k, done, uri) ==
  /\ Mounted
  /\ k \in DOMAIN studyCalls
  /\ studyCalls[k].pc \in {"videoCreate", "status"}
  /\ IF ~done THEN Stays(k, "sleep")
     ELSE IF uri THEN Leaves(k, "done", <<MediaMessage("video", DefaultCaption)>>)
     ELSE Leaves(k, "failed", <<>>)
  /\ UNCHANGED studyFrame

\* the 5000 ms sleep of the polling loop ends and the status is queried
SleepEnds(k) ==
  /\ Mounted
  /\ k \in DOMAIN studyCalls
  /\ studyCalls[k].pc = "sleep"
  /\ Stays(k, "status")
  /\ UNCHANGED studyFrame

\* ------------------------------------------------------------------------
\* Specification
\* ------------------------------------------------------------------------
Navigate == \E v \in {"home", "pdf-library"} : SetView(v)

QuizStep ==
  \/ \E b \in BOOLEAN : StartQuiz(b)
  \/ \E k \in 1..MaxStarts, raw \in QuizReplies : QuizResolves(k, raw)
  \/ \E k \in 1..MaxStarts : QuizRejects(k)
  \/ \E a \in LabelSet : HandleQuizAnswer(a)
  \/ TimerFires

StudyStep ==
  \/ \E b \in Books : SelectBook(b)
  \/ \E t \in InputTexts : TypeInput(t)
  \/ HandleImageUpload
  \/ StartListening
  \/ \E t \in InputTexts : SpeechResult(t)
  \/ SendMessage
  \/ GenerateQuestion
  \/ \E m \in 1..(1 + 2 * MaxStudy), k \in 1..4 : ChooseOption(m, k)
  \/ \E k \in 1..MaxStudy, raw \in StudyReplies : TextResolves(k, raw)
  \/ \E k \in 1..MaxStudy : StudyRejects(k)
  \/ \E k \in 1..MaxStudy, p \in BOOLEAN : ImageResolves(k, p)
  \/ \E k \in 1..MaxStudy, raw \in {<<>>, <<"x">>} : DescribeResolves(k, raw)
  \/ \E k \in 1..MaxStudy, d \in BOOLEAN, u \in BOOLEAN :
        OperationResolves(k, d, u)
  \/ \E k \in 1..MaxStudy : SleepEnds(k)

HomeStep ==
  \/ \E t \in InputTexts : TypeInput(t)
  \/ HandleAiGenerate
  \/ \E ok \in BOOLEAN : AiGenerateSettles(ok)

\* every operation of the application
Next == Navigate \/ QuizStep \/ StudyStep \/ HomeStep

Spec == Init /\ [][Next]_vars

\* the quiz flows alone: the user starts quizzes, answers, and navigates
NextQuiz == Navigate \/ QuizStep

SpecQuiz == Init /\ [][NextQuiz]_vars

\* the quiz flows with a clock: every display delay that was started expires
SpecQuizFair == SpecQuiz /\ WF_vars(TimerFires)

\* the study flows alone: one or more conversations with the tutor
NextStudy == Navigate \/ StudyStep

SpecStudy == Init /\ [][NextStudy]_vars

\* ------------------------------------------------------------------------
\* The parser applied to bounded response texts
\* ------------------------------------------------------------------------
MaxSegments == 3

\* a text made of one variant of every field of the protocol, in the order
\* of the prompt or with the answer key first
FieldTexts ==
  LET pre == { <<>>, <<"x", " ">>, <<"A", ")", " ">> }
      stem == { <<>>, <<"SORU:", " ", "x", " ">> }
      optA == { <<>>, <<"A", ")", " ", "x", " ">>, <<"A", ")">> }
      optB == { <<>>, <<"B", ")", " ", "x", " ">> }
      optC == { <<>>, <<"C", ")", " ", "x", " ">> }
      optD == { <<>>, <<"D", ")", " ", "x", " ">>, <<"D", ")", " ", ")", " ">> }
      key == { <<>>, <<"CEVAP:", " ", "A", " ">>, <<"CEVAP:", "B", " ">>,
               <<"CEVAP:", " ", "x", " ">>, <<"CEVAP:", " ", "CEVAP:", " ">> }
      near == { <<>>, <<"YAKIN:", " ", "A">>, <<"YAKIN:", "C">>,
                <<"YAKIN:", " ", "x">> }
  IN { IF first THEN p \o k \o y \o q \o a \o b \o c \o d
       ELSE p \o q \o a \o b \o c \o d \o k \o y :
         p \in pre, q \in stem, a \in optA, b \in optB, c \in optC,
         d \in optD, k \in key, y \in near, first \in BOOLEAN }

ItemKeyOnly(c) == <<"SORU:", " ", "x", " ">> \o OptionsABCD \o <<"CEVAP:", " ", c>>

\* the two-question example: "SORU: Q1 A) a ... CEVAP: A --- SORU: Q2 ... CEVAP: B"
ExampleBatch == ItemKeyOnly("A") \o Sep \o ItemKeyOnly("B")

Segments ==
  { <<>>, <<"x">>, ItemKeyOnly("A"), Item("B", "A"), ItemNoKey,
    <<"B", ")", " ", "x">>, <<"SORU:", " ", "x">> }

RECURSIVE Join(_)
Join(segs) ==
  IF Len(segs) = 1 THEN segs[1]
  ELSE segs[1] \o SEPARATOR \o Join(Tail(segs))

BatchTexts ==
  { Join(segs) : segs \in UNION { [1..n -> Segments] : n \in 1..MaxSegments } }

ParseTexts == FieldTexts \cup BatchTexts \cup {ExampleBatch}

InitParse ==
  /\ AppInit
  /\ input \in ParseTexts
  /\ output = NoOutput

appVars == <<uiVars, isGenerating, quizVars, callVars>>

\* the single parse of handleStudyMessage applied to the response text
ParseSingleStep ==
  /\ output = NoOutput
  /\ output' = [kind |-> "single", message |-> ParseSingle(input)]
  /\ UNCHANGED <<input, appVars>>

\* the batch parse of startQuiz applied to the response text
ParseBatchStep ==
  /\ output = NoOutput
  /\ output' = [kind |-> "batch", items |-> ParseBatch(input)]
  /\ UNCHANGED <<input, appVars>>

NextParse == ParseSingleStep \/ ParseBatchStep

SpecParse == InitParse /\ [][NextParse]_vars

\* ------------------------------------------------------------------------
\* The dispatcher applied to bounded user texts
\* ------------------------------------------------------------------------
DispatchTexts ==
  LET part == { <<>>, ResimPrefix, VideoPrefix, <<"/", "RESIM", " ">>,
                <<"/", "resim">>, <<" ">>, <<"x">> }
      rest == { <<>>, <<"x">>, <<" ", "x", " ">> }
  IN { a \o b \o r : a \in part, b \in part, r \in rest }

InitDispatch ==
  /\ AppInit
  /\ input \in [text : DispatchTexts, image : {Undefined, "img"},
                book : {Null} \cup Books]
  /\ output = NoOutput

\* the routing of handleStudyMessage applied to the user text
DispatchStep ==
  /\ output = NoOutput
  /\ output' = IF Accepted(input.text, input.image, input.book)
               THEN Dispatch(input.text, input.image)
               ELSE [kind |-> "return"]
  /\ UNCHANGED <<input, appVars>>

NextDispatch == DispatchStep

SpecDispatch == InitDispatch /\ [][NextDispatch]_vars

\* ------------------------------------------------------------------------
\* One quiz session played to the end without a restart
\* ------------------------------------------------------------------------
FirstStart ==
  /\ quizCalls = <<>>
  /\ \E b \in BOOLEAN : StartQuiz(b)

NextSession ==
  \/ Navigate
  \/ FirstStart
  \/ \E raw \in AllQuizReplies : QuizResolves(1, raw)
  \/ QuizRejects(1)
  \/ \E a \in LabelSet : HandleQuizAnswer(a)
  \/ TimerFires

SpecSession == Init /\ [][NextSession]_vars

\* ------------------------------------------------------------------------
\* The request pipelines of handleStudyMessage under fair scheduling: every
\* awaited call settles and every sleep of the polling loop ends
\* ------------------------------------------------------------------------
\* the pending await of call k settles, in any of the ways it can
Settles(k) ==
  \/ \E raw \in StudyReplies : TextResolves(k, raw)
  \/ StudyRejects(k)
  \/ \E p \in BOOLEAN : ImageResolves(k, p)
  \/ \E raw \in {<<>>, <<"x">>} : DescribeResolves(k, raw)
  \/ \E d \in BOOLEAN, u \in BOOLEAN : OperationResolves(k, d, u)
  \/ SleepEnds(k)

NextPipeline ==
  \/ Navigate
  \/ \E b \in Books : SelectBook(b)
  \/ \E t \in InputTexts : TypeInput(t)
  \/ SendMessage
  \/ \E k \in 1..MaxStudy : Settles(k)

SpecPipeline ==
  /\ Init
  /\ [][NextPipeline]_vars
  /\ \A k \in 1..MaxStudy : WF_vars(Settles(k))

\* ------------------------------------------------------------------------
\* The media jobs of one conversation, dictated through speech recognition
\* ------------------------------------------------------------------------
NextMedia ==
  \/ Navigate
  \/ SelectBook("fen")
  \/ StartListening
  \/ \E t \in InputTexts : SpeechResult(t)
  \/ \E k \in 1..MaxStudy : Settles(k)

SpecMedia == Init /\ [][NextMedia]_vars

\* ------------------------------------------------------------------------
\* The three request handlers side by side: the home-screen generator, the
\* question generator of one conversation and the quiz, which share the
\* busy flag
\* ------------------------------------------------------------------------
NextBusy ==
  \/ Navigate
  \/ HomeStep
  \/ SelectBook("fen")
  \/ GenerateQuestion
  \/ \E k \in 1..MaxStudy, raw \in StudyReplies : TextResolves(k, raw)
  \/ \E k \in 1..MaxStudy : StudyRejects(k)
  \/ StartQuiz(FALSE)
  \/ \E k \in 1..MaxStarts, raw \in QuizReplies : QuizResolves(k, raw)
  \/ \E k \in 1..MaxStarts : QuizRejects(k)

SpecBusy == Init /\ [][NextBusy]_vars

\* ------------------------------------------------------------------------
\* Claims about the quiz state machine
\* ------------------------------------------------------------------------
\* number of recorded outcomes equal to status
Count(status) == Cardinality({i \in DOMAIN answerStatus : answerStatus[i] = status})

\* C1: in every reachable state the accumulated score lies in [0, 100]
C1_ScoreInRange == 0 <= quizScore /\ quizScore <= 100 * ScoreDen

\* C2: while the pending selection stays set, no step (in particular no
\* further handleQuizAnswer call) changes the score, the recorded outcomes,
\* the cursor or the pending selection, or starts another timer
C2_SecondSubmitIsNoOp ==
  [][(selectedAnswer # Null /\ selectedAnswer' # Null)
       => UNCHANGED <<quizScore, answerStatus, currentQuizIndex,
                      selectedAnswer, timers>>]_vars

\* an answer is awaiting the end of its display delay
C2_Witness ==
  /\ selectedAnswer # Null
  /\ Len(timers) = 1
  /\ currentQuizIndex \in DOMAIN answerStatus
  /\ QuestionShown

\* C3: once the responses of two overlapping startQuiz calls have both
\* arrived, the quiz items are the parsed response of the newest call
C3_NewestResponseWins ==
  (/\ Len(quizCalls) >= 2
   /\ \A k \in DOMAIN quizCalls : quizCalls[k].pc = "done")
    => quizQuestions = ParsedReply[quizCalls[Len(quizCalls)].raw]

StudyInFlight == {k \in DOMAIN studyCalls : studyCalls[k].pc \notin {"done", "failed"}}

QuizInFlight == {k \in DOMAIN quizCalls : quizCalls[k].pc = "await"}

\* C4: at most one generation request of a conversation, and at most one of
\* a quiz, is in flight at any time
C4_OneRequestInFlight ==
  /\ Cardinality(StudyInFlight) <= 1
  /\ Cardinality(QuizInFlight) <= 1

\* C5: a step that accepts an answer (the pending selection becomes set)
\* records the outcome of that answer at the cursor and nothing else, and adds
\* 100/n for correct, 50/n for close and 0 for incorrect, where correctness
\* is tested before closeness
C5_AcceptedAnswerScoring ==
  [][(selectedAnswer = Null /\ selectedAnswer' # Null) =>
       LET q == quizQuestions[currentQuizIndex + 1]
           n == Len(quizQuestions)
           gain == quizScore' - quizScore
       IN /\ DOMAIN answerStatus' = DOMAIN answerStatus \cup {currentQuizIndex}
          /\ \A i \in DOMAIN answerStatus \ {currentQuizIndex} :
               answerStatus'[i] = answerStatus[i]
          /\ IF selectedAnswer' = q.correctAnswer
             THEN /\ answerStatus'[currentQuizIndex] = "correct"
                  /\ n * gain = 100 * ScoreDen
             ELSE IF selectedAnswer' = q.closeAnswer
             THEN /\ answerStatus'[currentQuizIndex] = "close"
                  /\ 2 * n * gain = 100 * ScoreDen
             ELSE /\ answerStatus'[currentQuizIndex] = "incorrect"
                  /\ gain = 0]_vars

\* an accepted answer that matches both correctAnswer and closeAnswer
C5_Witness ==
  /\ selectedAnswer # Null
  /\ QuestionShown
  /\ currentQuizIndex < Len(quizQuestions)
  /\ CurrentQ.correctAnswer = selectedAnswer
  /\ CurrentQ.closeAnswer = selectedAnswer
  /\ currentQuizIndex \in DOMAIN answerStatus
  /\ answerStatus[currentQuizIndex] = "correct"
  /\ quizScore * Len(quizQuestions) = 100 * ScoreDen

\* round((100 * c + 50 * k) / n) in integer arithmetic
RoundedShare(c, k, n) == (2 * (100 * c + 50 * k) + n) \div (2 * n)

\* C6: a session of n items answered to the end without a restart reports
\* round((100 * c + 50 * k) / n) for c correct and k close answers; for
\* n = 5: five correct give 100, five incorrect 0, three correct and two
\* close 80
C6_FinalScore ==
  quizFinished =>
    LET n == Len(quizQuestions)
        c == Count("correct")
        k == Count("close")
    IN /\ DOMAIN answerStatus = 0..n - 1
       /\ MathRound(quizScore) = RoundedShare(c, k, n)
       /\ (n = 5 /\ c = 5) => MathRound(quizScore) = 100
       /\ (n = 5 /\ Count("incorrect") = 5) => MathRound(quizScore) = 0
       /\ (n = 5 /\ c = 3 /\ k = 2) => MathRound(quizScore) = 80

\* a finished five-item session with three correct and two close answers
C6_Witness ==
  /\ quizFinished
  /\ Len(quizQuestions) = 5
  /\ Count("correct") = 3
  /\ Count("close") = 2
  /\ MathRound(quizScore) = 80

\* ------------------------------------------------------------------------
\* Claims about the parser and the dispatcher
\* ------------------------------------------------------------------------
\* the text t contains the token sequence pat
Contains(t, pat) ==
  \E i \in 1..Len(t) :
    /\ i + Len(pat) - 1 <= Len(t)
    /\ \A j \in 1..Len(pat) : t[i + j - 1] = pat[j]

HasAllMarkers(t) ==
  /\ Contains(t, <<"SORU:">>)
  /\ \A l \in LabelSet : Contains(t, <<l, ")">>)
  /\ Contains(t, <<"CEVAP:">>)
  /\ Contains(t, <<"YAKIN:">>)

\* marker is followed, after optional white space, by a letter A-D
\* (the letter may be the first letter of a following keyword)
LabelFollows(t, marker) ==
  \E i \in 1..Len(t), j \in 1..Len(t) :
    /\ t[i] = marker
    /\ i < j
    /\ \A m \in i + 1..j - 1 : t[m] = " "
    /\ t[j] \in LabelSet \cup {"CEVAP:"}

\* C7: a response text that lacks "SORU:" or lacks "A)" is parsed to a plain
\* tutor message with the text verbatim, no options, no correct and no close
\* label, and not quiz-typed
C7_PlainFallback ==
  (/\ output.kind = "single"
   /\ (~Contains(input, <<"SORU:">>) \/ ~Contains(input, <<"A", ")">>)))
    => /\ output.message.role = "model"
       /\ output.message.text = input
       /\ ~output.message.hasOptions
       /\ output.message.options = <<>>
       /\ output.message.correctAnswer = Undefined
       /\ output.message.closeAnswer = Undefined
       /\ output.message.type # "quiz"

\* a parsed text with "A)" but without "SORU:"
C7_Witness ==
  /\ output.kind = "single"
  /\ Contains(input, <<"A", ")">>)
  /\ Contains(input, <<"CEVAP:">>)
  /\ ~Contains(input, <<"SORU:">>)
  /\ output.message.text = input

\* the message obtained from the output of either parse of a one-block text
ParsedMessages ==
  IF output.kind = "single" THEN {output.message}
  ELSE IF output.kind = "batch" THEN {output.items[k] : k \in DOMAIN output.items}
  ELSE {}

FourOptionsInOrder(m) ==
  /\ Len(m.options) = 4
  /\ \A k \in 1..4 : Head(m.options[k]) = Labels[k]

\* C8 as claimed: every text with all markers parses to four options in the
\* order A, B, C, D, a correct label and a different close label
C8_WellFormedAsClaimed ==
  (HasAllMarkers(input) /\ ~Contains(input, SEPARATOR))
    => \A m \in ParsedMessages :
         /\ FourOptionsInOrder(m)
         /\ m.correctAnswer \in LabelSet
         /\ m.closeAnswer \in LabelSet \ {m.correctAnswer}

\* C8 as amended: when moreover "CEVAP:" and "YAKIN:" are each followed by a
\* letter A-D, parsing yields four options in the order A, B, C, D, a
\* correct label and a close label in {A,B,C,D}; the close label may equal
\* the correct label
C8_WellFormed ==
  (/\ HasAllMarkers(input)
   /\ ~Contains(input, SEPARATOR)
   /\ LabelFollows(input, "CEVAP:")
   /\ LabelFollows(input, "YAKIN:")
   /\ output # NoOutput)
    => /\ ParsedMessages # {}
       /\ \A m \in ParsedMessages :
            /\ m.type = "quiz"
            /\ FourOptionsInOrder(m)
            /\ m.correctAnswer \in LabelSet
            /\ m.closeAnswer \in LabelSet

\* a parsed well-formed text whose close label equals its correct label
C8_Witness ==
  /\ HasAllMarkers(input)
  /\ output.kind = "single"
  /\ output.message.correctAnswer = "A"
  /\ output.message.closeAnswer = "A"
  /\ Len(output.message.options) = 4

\* a segment contains an option marker
HasOption(seg) == \E l \in LabelSet : Contains(seg, <<l, ")">>)

\* C9: batch parsing keeps, in segment order, exactly the segments with at
\* least one option, each parsed on its own: every item has options, the
\* output is never longer than the segment count and shorter when a segment
\* has no option, and the example of two segments gives the labels A, B
C9_BatchParse ==
  output.kind = "batch" =>
    LET segs == Split(input, SEPARATOR)
        kept == SelectSeq(segs, HasOption)
        items == output.items
    IN /\ Len(items) = Len(kept)
       /\ Len(items) <= Len(segs)
       /\ (\E k \in DOMAIN segs : ~HasOption(segs[k])) => Len(items) < Len(segs)
       /\ \A k \in DOMAIN items :
            /\ items[k].options # <<>>
            /\ items[k].options = ParseOptions(kept[k])
            /\ items[k].correctAnswer = LabelAfter(kept[k], CEVAP)
            /\ items[k].closeAnswer = LabelAfter(kept[k], YAKIN)
       /\ input = ExampleBatch =>
            /\ Len(items) = 2
            /\ items[1].correctAnswer = "A"
            /\ items[2].correctAnswer = "B"

\* a batch in which a segment without options was dropped
C9_Witness ==
  /\ output.kind = "batch"
  /\ Len(Split(input, SEPARATOR)) = 3
  /\ Len(output.items) = 2
  /\ output.items[1].correctAnswer = "A"
  /\ output.items[2].correctAnswer = "B"

IsResimCommand(t) ==
  Len(t) >= 3 /\ t[1] = "/" /\ t[2] = "resim" /\ t[3] = " "

IsVideoCommand(t) ==
  Len(t) >= 3 /\ t[1] = "/" /\ t[2] = "video" /\ t[3] = " "

\* C10: an accepted user text is routed by exact prefix, image before video:
\* "/resim " gives an image job whose prompt is the text without that
\* leading prefix, else "/video " gives a video job with the remainder, else
\* a tutor request with the full text and the attachment
C10_Dispatch ==
  (output # NoOutput /\ output.kind # "return") =>
    LET t == input.text
    IN IF IsResimCommand(t)
       THEN output.kind = "image" /\ output.prompt = SubSeq(t, 4, Len(t))
       ELSE IF IsVideoCommand(t)
       THEN output.kind = "video" /\ output.prompt = SubSeq(t, 4, Len(t))
       ELSE /\ output.kind = "text"
            /\ output.prompt = t
            /\ output.image = input.image

\* an image job whose prompt itself starts with "/video "
C10_Witness ==
  /\ output # NoOutput
  /\ output.kind = "image"
  /\ IsVideoCommand(output.prompt)
  /\ Len(input.text) = Len(output.prompt) + 3

\* ------------------------------------------------------------------------
\* Claims about the conversation log and the request pipelines
\* ------------------------------------------------------------------------
\* C11: a step in which a dispatched study request fails appends exactly one
\* tutor message (the fallback) to the conversation
C11_FallbackOnFailure ==
  [][\A k \in DOMAIN studyCalls :
       (studyCalls[k].pc # "failed" /\ studyCalls'[k].pc = "failed")
         => /\ Len(chatMessages') = Len(chatMessages) + 1
            /\ chatMessages'[Len(chatMessages')].role = "model"]_vars

\* number of messages of the given role among the first i of the log, the
\* greeting at position 1 excepted
CountRole(role, i) ==
  Cardinality({j \in 2..i : chatMessages[j].role = role})

\* C12: in the log every tutor response comes after the user message that
\* caused it: up to any position there are at least as many user messages as
\* tutor responses
C12_ResponseAfterUserMessage ==
  \A i \in DOMAIN chatMessages :
    CountRole("model", i) <= CountRole("user", i)

\* C13: every video request terminates, whatever the status calls report
C13_VideoTerminates ==
  \A k \in 1..MaxStudy :
    (k \in DOMAIN studyCalls /\ studyCalls[k].request.kind = "video")
      ~> (k \in DOMAIN studyCalls /\ studyCalls[k].pc \in {"done", "failed"})

\* ------------------------------------------------------------------------
\* Claims about the cursor, the outcomes and the sessions of the quiz
\* ------------------------------------------------------------------------
\* the step is a call of startQuiz
Restarts == Len(quizCalls') > Len(quizCalls)

\* the step is the expiry of a display delay
Expires == Len(timers') < Len(timers)

\* C14: the cursor changes only by a reset to 0 at startQuiz or by exactly +1
\* at the resolution of an answer of the running session, that is while an
\* answer is selected whose outcome is recorded at the cursor
C14_CursorAdvance ==
  [][currentQuizIndex' # currentQuizIndex =>
       \/ Restarts /\ currentQuizIndex' = 0
       \/ /\ currentQuizIndex' = currentQuizIndex + 1
          /\ selectedAnswer # Null
          /\ currentQuizIndex \in DOMAIN answerStatus]_vars

C16_OutcomesWriteOnce ==
  [][~Restarts =>
       /\ \A i \in DOMAIN answerStatus :
            i \in DOMAIN answerStatus' /\ answerStatus'[i] = answerStatus[i]
       /\ \A i \in DOMAIN answerStatus' \ DOMAIN answerStatus :
            /\ i = currentQuizIndex
            /\ selectedAnswer = Null
            /\ selectedAnswer' # Null
       /\ quizScore' # quizScore =>
            /\ currentQuizIndex \notin DOMAIN answerStatus
            /\ currentQuizIndex \in DOMAIN answerStatus']_vars

\* after a restart, two items of the session carry different outcomes and a
\* third answer awaits the end of its delay
C16_Witness ==
  /\ Len(quizCalls) = 2
  /\ DOMAIN answerStatus = 0..2
  /\ answerStatus[0] # answerStatus[1]
  /\ quizScore > 0
  /\ selectedAnswer # Null

\* C17: after a startQuiz whose batch request failed the session has no items
C17_FreshSession ==
  (quizCalls # <<>> /\ quizCalls[Len(quizCalls)].pc = "failed")
    => quizQuestions = <<>>

\* C18: while the session is Finished, no step other than startQuiz changes
\* the items, the outcomes, the score, the cursor or the Finished flag
C18_FinishedIsReadOnly ==
  [][(quizFinished /\ ~Restarts) =>
       UNCHANGED <<quizQuestions, answerStatus, quizScore, currentQuizIndex,
                   quizFinished>>]_vars

\* ------------------------------------------------------------------------
\* Claims about stale responses and parsed quiz messages
\* ------------------------------------------------------------------------
\* C19: a step in which a request completes and appends its tutor message
\* happens in the conversation of the subject the request was sent in
C19_ResponseStaysInSession ==
  [][\A k \in DOMAIN studyCalls :
       (/\ studyCalls[k].pc # "done"
        /\ studyCalls'[k].pc = "done"
        /\ chatMessages' # chatMessages)
         => studyCalls[k].book = selectedBook]_vars

\* the labels of the options of message m
OptionLabels(m) == {Head(m.options[k]) : k \in DOMAIN m.options}

\* C20: every quiz-typed message of either parse has at least one option, and
\* its correct label, when present, is the label of one of its options
C20_CorrectLabelIsAnOption ==
  \A m \in ParsedMessages :
    m.type = "quiz" =>
      /\ m.options # <<>>
      /\ m.correctAnswer # Undefined => m.correctAnswer \in OptionLabels(m)

\* ------------------------------------------------------------------------
\* Claims about segments, media jobs and recovery
\* ------------------------------------------------------------------------
\* the quiz-shape test applied to one segment
ShapedSegment(seg) == Contains(seg, <<"SORU:">>) /\ Contains(seg, <<"A", ")">>)

\* C21: the batch parse emits one item for every segment that has "SORU:"
\* and "A)" and none for any other segment
C21_ShapeTestPerSegment ==
  output.kind = "batch" =>
    Len(output.items) = Len(SelectSeq(Split(input, SEPARATOR), ShapedSegment))

\* the tutor entries of a log that carry an image
ImageEntries(log) ==
  {i \in DOMAIN log : log[i].role = "model" /\ log[i].image # Undefined}

\* C22: an image job awaits the generation call once, then (payload present)
\* the description call once, and ends done or failed; it fails from the
\* generation call without passing through the description call; and a tutor
\* entry with an image is appended only by the step in which the description
\* call of an image job completes
C22_ImageJob ==
  [][/\ \A k \in DOMAIN studyCalls' :
          studyCalls'[k].request.kind = "image" =>
            IF k \notin DOMAIN studyCalls
            THEN studyCalls'[k].pc = "image"
            ELSE studyCalls'[k].pc # studyCalls[k].pc =>
                   <<studyCalls[k].pc, studyCalls'[k].pc>> \in
                     { <<"image", "describe">>, <<"image", "failed">>,
                       <<"describe", "done">>, <<"describe", "failed">> }
     /\ Cardinality(ImageEntries(chatMessages'))
          > Cardinality(ImageEntries(chatMessages)) =>
          /\ \E k \in DOMAIN studyCalls :
               /\ studyCalls[k].request.kind = "image"
               /\ studyCalls[k].pc = "describe"
               /\ studyCalls'[k].pc = "done"
          /\ Len(chatMessages') = Len(chatMessages) + 1]_vars

\* an image job is done and its entry, image and description, ends the log
C22_Witness ==
  /\ \E k \in DOMAIN studyCalls :
       studyCalls[k].request.kind = "image" /\ studyCalls[k].pc = "done"
  /\ chatMessages # <<>>
  /\ chatMessages[Len(chatMessages)].type = "image"
  /\ chatMessages[Len(chatMessages)].image # Undefined
  /\ chatMessages[Len(chatMessages)].text = <<"x">>

\* the tutor entries of a log that are video messages
VideoEntries(log) ==
  {i \in DOMAIN log : log[i].role = "model" /\ log[i].type = "video"}

\* C23: a video job starts at the creation call, sleeps and re-queries the
\* status while the job is not done, and ends done or failed; a video entry
\* is appended only by the step in which the creation or a status call of a
\* video job completes the job, and it carries the result URI
C23_VideoJob ==
  [][/\ \A k \in DOMAIN studyCalls' :
          studyCalls'[k].request.kind = "video" =>
            IF k \notin DOMAIN studyCalls
            THEN studyCalls'[k].pc = "videoCreate"
            ELSE studyCalls'[k].pc # studyCalls[k].pc =>
                   <<studyCalls[k].pc, studyCalls'[k].pc>> \in
                     { <<"videoCreate", "sleep">>, <<"videoCreate", "done">>,
                       <<"videoCreate", "failed">>, <<"sleep", "status">>,
                       <<"status", "sleep">>, <<"status", "done">>,
                       <<"status", "failed">> }
     /\ Cardinality(VideoEntries(chatMessages'))
          > Cardinality(VideoEntries(chatMessages)) =>
          /\ \E k \in DOMAIN studyCalls :
               /\ studyCalls[k].request.kind = "video"
               /\ studyCalls[k].pc \in {"videoCreate", "status"}
               /\ studyCalls'[k].pc = "done"
          /\ Len(chatMessages') = Len(chatMessages) + 1
          /\ chatMessages'[Len(chatMessages')].video # Undefined]_vars

\* a video job is done and its entry, with the URI, ends the log, while
\* another video job has failed
C23_Witness ==
  /\ \E k \in DOMAIN studyCalls :
       studyCalls[k].request.kind = "video" /\ studyCalls[k].pc = "done"
  /\ \E k \in DOMAIN studyCalls :
       studyCalls[k].request.kind = "video" /\ studyCalls[k].pc = "failed"
  /\ chatMessages # <<>>
  /\ chatMessages[Len(chatMessages)].type = "video"
  /\ chatMessages[Len(chatMessages)].video # Undefined

\* ------------------------------------------------------------------------
\* Claims about inactive sessions, the busy flag and the score
\* ------------------------------------------------------------------------
\* the session is Empty: generation is over and there is no item
EmptySession == quizCalls # <<>> /\ ~isGenerating /\ quizQuestions = <<>>

\* C24: an answer is accepted only while a question is shown (not while the
\* batch is loading, not in an Empty session), and an Empty session keeps
\* its empty item sequence until startQuiz is called again
C24_InactiveIsInert ==
  [][~Restarts =>
       /\ (selectedAnswer = Null /\ selectedAnswer' # Null) => QuestionShown
       /\ EmptySession => quizQuestions' = <<>>]_vars

\* the session is Active: generation is over, there are items, not Finished
ActiveSession == ~isGenerating /\ ~quizFinished /\ Len(quizQuestions) > 0

\* C25: while the session is Active, no step other than startQuiz changes
\* the item sequence
C25_ItemsFixed ==
  [][(ActiveSession /\ ~Restarts) => quizQuestions' = quizQuestions]_vars

\* the step only appends to the conversation log
KeepsLog ==
  /\ Len(chatMessages') >= Len(chatMessages)
  /\ SubSeq(chatMessages', 1, Len(chatMessages)) = chatMessages

\* C26: the step in which a study or quiz request ends, by success or by any
\* failure, clears the busy flag, keeps every earlier entry of the log and
\* leaves the application mounted, so that further requests can be made
C26_FailureIsNotFatal ==
  [][/\ \A k \in DOMAIN studyCalls :
          (/\ studyCalls[k].pc \notin {"done", "failed"}
           /\ studyCalls'[k].pc \in {"done", "failed"})
            => ~isGenerating' /\ KeepsLog /\ Mounted'
     /\ \A k \in DOMAIN quizCalls :
          (quizCalls[k].pc = "await" /\ quizCalls'[k].pc # "await")
            => ~isGenerating' /\ chatMessages' = chatMessages /\ Mounted']_vars

\* C27: every accepted answer is eventually resolved: whenever an answer is
\* selected, the selection is eventually cleared
C27_AnswerResolves == (selectedAnswer # Null) ~> (selectedAnswer = Null)

\* C28: the busy flag is set in every state in which a request of
\* handleAiGenerate, handleStudyMessage or startQuiz is outstanding
C28_BusyWhileOutstanding ==
  (aiCalls > 0 \/ StudyInFlight # {} \/ QuizInFlight # {}) => isGenerating

\* C29: the score is the sum of the contributions of the recorded outcomes
\* with the current item count, score * len(items) = 100 * #correct +
\* 50 * #close, and it is 0 when no outcome is recorded
C29_ScoreMatchesOutcomes ==
  /\ answerStatus = <<>> => quizScore = 0
  /\ Len(quizQuestions) > 0 =>
       quizScore * Len(quizQuestions)
         = (100 * Count("correct") + 50 * Count("close")) * ScoreDen

\* C30: every index below the cursor has a recorded outcome, and a Finished
\* session has a recorded outcome for every index of its items
C30_NoItemSkipped ==
  /\ \A i \in 0..currentQuizIndex - 1 : i \in DOMAIN answerStatus
  /\ quizFinished =>
       \A i \in 0..Len(quizQuestions) - 1 : i \in DOMAIN answerStatus

====
